---- MODULE Spec2Model ----
(***************************************************************************)
(* Model of make_hollow.py: make_hollow(input_file, output_file,           *)
(* wall_thickness) loads a triangle mesh, builds a scaled, winding-flipped *)
(* inner copy, concatenates both and exports the result.                   *)
(*                                                                         *)
(* Floating point numbers are modelled as exact rationals <<n, d>> (d > 0, *)
(* lowest terms), extended with nan / inf / -inf for the results of a      *)
(* numpy division by zero.  Rounding is not modelled.                      *)
(* Mesh files are STL files ("Top.stl"): a sequence of triangles, each     *)
(* three points.  Loading merges equal points into one vertex.             *)
(***************************************************************************)
EXTENDS Integers, Sequences, FiniteSets, TLC

(***************************************************************************)
(* Bounds of the model.                                                    *)
(***************************************************************************)
\* boxes of the catalogue have smallest side 1..MaxDim
MaxDim == 2
\* wall thicknesses are k/20 for k in -1..MaxThick (plus the script's 2.0)
MaxThick == 4
\* the script is run at most MaxRuns times in a row by one caller
MaxRuns == 3
\* the script is run again only on files whose coordinates have denominators up to MaxDen,
\* which keeps the exact arithmetic within the range of the model's integers
MaxDen == 100

(***************************************************************************)
(* Exact rational arithmetic.                                              *)
(***************************************************************************)
Abs(x) == IF x < 0 THEN -x ELSE x

RECURSIVE Gcd(_, _)
Gcd(a, b) == IF b = 0 THEN a ELSE Gcd(b, a % b)

R(n, d) ==
    LET s == IF d < 0 THEN -1 ELSE 1
        g == Gcd(Abs(n), Abs(d))
    IN  <<(s * n) \div g, (s * d) \div g>>

Zero == <<0, 1>>

\* products and sums are taken over reduced terms, so that intermediate values stay small
RMul(a, b) ==
    LET g1 == Gcd(Abs(a[1]), b[2])
        g2 == Gcd(Abs(b[1]), a[2])
    IN  R((a[1] \div g1) * (b[1] \div g2), (a[2] \div g2) * (b[2] \div g1))
RAdd(a, b) ==
    LET g == Gcd(a[2], b[2])
    IN  R(a[1] * (b[2] \div g) + b[1] * (a[2] \div g), (a[2] \div g) * b[2])
RNeg(a) == <<-a[1], a[2]>>
RSub(a, b) == RAdd(a, RNeg(b))
RDiv(a, b) == RMul(a, IF b[1] < 0 THEN <<-b[2], -b[1]>> ELSE <<b[2], b[1]>>)
RLt(a, b) ==
    LET g == Gcd(a[2], b[2])
    IN  a[1] * (b[2] \div g) < b[1] * (a[2] \div g)
RAbs(a) == <<Abs(a[1]), a[2]>>
RMin(a, b) == IF RLt(b, a) THEN b ELSE a

\* the exact square root of a rational that is a perfect square
ISqrt(n) == CHOOSE k \in 0..n : k * k = n
RSqrt(a) == <<ISqrt(a[1]), ISqrt(a[2])>>

(***************************************************************************)
(* numpy float64 values: finite, nan, inf, -inf.                           *)
(***************************************************************************)
Fin(r) == [kind |-> "fin", val |-> r]
NaN == [kind |-> "nan", val |-> Zero]
PosInf == [kind |-> "inf", val |-> Zero]
NegInf == [kind |-> "-inf", val |-> Zero]

\* a < b on floats; every comparison with nan is false
FLt(a, b) ==
    CASE a.kind = "nan" \/ b.kind = "nan" -> FALSE
      [] a.kind = "-inf" -> b.kind # "-inf"
      [] a.kind = "inf" -> FALSE
      [] b.kind = "-inf" -> FALSE
      [] b.kind = "inf" -> TRUE
      [] OTHER -> RLt(a.val, b.val)

\* a / b as numpy divides float64 scalars: x/0 is +-inf, 0/0 is nan (a warning, no exception)
FDiv(a, b) ==
    IF b[1] # 0 THEN Fin(RDiv(a, b))
    ELSE IF a[1] < 0 THEN NegInf
    ELSE IF a[1] > 0 THEN PosInf
    ELSE NaN

\* Python's builtin min(a, b) and max(a, b): the first argument is kept unless the second is strictly smaller / larger
PyMin(a, b) == IF FLt(b, a) THEN b ELSE a
PyMax(a, b) == IF FLt(a, b) THEN b ELSE a

(***************************************************************************)
(* Points, meshes, files.                                                  *)
(***************************************************************************)
Range(s) == {s[i] : i \in 1..Len(s)}

P(x, y, z) == <<R(x, 1), R(y, 1), R(z, 1)>>
VSub(a, b) == <<RSub(a[1], b[1]), RSub(a[2], b[2]), RSub(a[3], b[3])>>
VAdd(a, b) == <<RAdd(a[1], b[1]), RAdd(a[2], b[2]), RAdd(a[3], b[3])>>
VScale(a, s) == <<RMul(a[1], s), RMul(a[2], s), RMul(a[3], s)>>

\* file contents that are not a mesh
Missing == [kind |-> "missing", tris |-> <<>>]
Corrupt == [kind |-> "corrupt", tris |-> <<>>]
Stl(tris) == [kind |-> "stl", tris |-> tris]

NoMesh == [vertices |-> <<>>, faces |-> <<>>]

\* the distinct elements of a sequence, in order of first appearance
Uniq(s) ==
    LET firsts == {i \in 1..Len(s) : \A j \in 1..(i - 1) : s[j] # s[i]}
        Nth(k) == CHOOSE i \in firsts : Cardinality({j \in firsts : j < i}) = k - 1
    IN  [k \in 1..Cardinality(firsts) |-> s[Nth(k)]]

IndexOf(s, x) == (CHOOSE i \in 1..Len(s) : s[i] = x) - 1

\* a variant that also drops repeated triangles
LoadMeshValidated(tris) ==
    LET ts == Uniq(tris)
        pts == [i \in 1..(3 * Len(ts)) |-> ts[((i - 1) \div 3) + 1][((i - 1) % 3) + 1]]
        vs == Uniq(pts)
    IN  [vertices |-> vs,
         faces |-> [i \in 1..Len(ts) |->
                      <<IndexOf(vs, ts[i][1]), IndexOf(vs, ts[i][2]), IndexOf(vs, ts[i][3])>>]]

\* trimesh.load_mesh on an STL: the triangle soup with equal points merged
\* (vertices in order of first appearance, faces as 0-based index triples)
LoadMesh(tris) ==
    LET pts == [i \in 1..(3 * Len(tris)) |-> tris[((i - 1) \div 3) + 1][((i - 1) % 3) + 1]]
        vs == Uniq(pts)
    IN  [vertices |-> vs,
         faces |-> [i \in 1..Len(tris) |->
                      <<IndexOf(vs, tris[i][1]), IndexOf(vs, tris[i][2]), IndexOf(vs, tris[i][3])>>]]

\* the point a 0-based index of a face refers to
Vertex(m, i) == m.vertices[i + 1]

\* Trimesh.export to an STL: one triangle of three points per face
ExportStl(m) ==
    Stl([i \in 1..Len(m.faces) |->
           <<Vertex(m, m.faces[i][1]), Vertex(m, m.faces[i][2]), Vertex(m, m.faces[i][3])>>])

(***************************************************************************)
(* Mesh queries of the library, as make_hollow uses them.                  *)
(***************************************************************************)
Cross(a, b) ==
    <<RSub(RMul(a[2], b[3]), RMul(a[3], b[2])),
      RSub(RMul(a[3], b[1]), RMul(a[1], b[3])),
      RSub(RMul(a[1], b[2]), RMul(a[2], b[1]))>>
Dot(a, b) == RAdd(RAdd(RMul(a[1], b[1]), RMul(a[2], b[2])), RMul(a[3], b[3]))

\* the length of a vector; exact for axis-parallel vectors and perfect squares
Norm(a) ==
    IF a[1] = Zero /\ a[2] = Zero THEN RAbs(a[3])
    ELSE IF a[1] = Zero /\ a[3] = Zero THEN RAbs(a[2])
    ELSE IF a[2] = Zero /\ a[3] = Zero THEN RAbs(a[1])
    ELSE RSqrt(Dot(a, a))

\* the sum of s[lo..hi], and of a whole sequence
RECURSIVE RSumRange(_, _, _)
RSumRange(s, lo, hi) ==
    IF lo > hi THEN Zero
    ELSE IF lo = hi THEN s[lo]
    ELSE LET mid == (lo + hi) \div 2
         IN  RAdd(RSumRange(s, lo, mid), RSumRange(s, mid + 1, hi))
RSum(s) == RSumRange(s, 1, Len(s))

Coord(m, axis) == {m.vertices[i][axis] : i \in 1..Len(m.vertices)}
RSetMin(S) == CHOOSE x \in S : \A y \in S : ~RLt(y, x)
RSetMax(S) == CHOOSE x \in S : \A y \in S : ~RLt(x, y)

\* mesh.bounds: the axis-aligned bounding box, <<min corner, max corner>>
Bounds(m) ==
    <<[axis \in 1..3 |-> RSetMin(Coord(m, axis))],
      [axis \in 1..3 |-> RSetMax(Coord(m, axis))]>>

\* dimensions = bounds[1] - bounds[0]
Dimensions(m) == LET b == Bounds(m) IN [axis \in 1..3 |-> RSub(b[2][axis], b[1][axis])]

\* min_dim = min(dimensions)
MinDim(m) == LET d == Dimensions(m) IN RMin(RMin(d[1], d[2]), d[3])

FaceArea(m, f) ==
    RMul(R(1, 2), Norm(Cross(VSub(Vertex(m, f[2]), Vertex(m, f[1])),
                             VSub(Vertex(m, f[3]), Vertex(m, f[1])))))
FaceCenter(m, f) ==
    VScale(VAdd(VAdd(Vertex(m, f[1]), Vertex(m, f[2])), Vertex(m, f[3])), R(1, 3))

\* the sum of the face areas, the weights of mesh.centroid
AreaSum(m) == RSum([i \in 1..Len(m.faces) |-> FaceArea(m, m.faces[i])])

\* mesh.centroid: the average of the triangle centers weighted by triangle area
Centroid(m) ==
    LET areas == [i \in 1..Len(m.faces) |-> FaceArea(m, m.faces[i])]
        centers == [i \in 1..Len(m.faces) |-> FaceCenter(m, m.faces[i])]
        W(axis) == RSum([i \in 1..Len(m.faces) |-> RMul(areas[i], centers[i][axis])])
        total == RSum(areas)
    IN  <<RDiv(W(1), total), RDiv(W(2), total), RDiv(W(3), total)>>

\* mesh.volume: the signed volume enclosed by the faces
Volume(m) ==
    RMul(R(1, 6), RSum([i \in 1..Len(m.faces) |->
                          Dot(Vertex(m, m.faces[i][1]),
                              Cross(Vertex(m, m.faces[i][2]), Vertex(m, m.faces[i][3])))]))

\* the undirected edges of a face, as sets of two indices
FaceEdges(f) == {{f[1], f[2]}, {f[2], f[3]}, {f[3], f[1]}}
EdgeCount(m, e) == Cardinality({i \in 1..Len(m.faces) : e \in FaceEdges(m.faces[i])})

\* mesh.is_watertight: every edge belongs to exactly two faces
IsWatertight(m) ==
    /\ m.faces # <<>>
    /\ \A i \in 1..Len(m.faces) : \A e \in FaceEdges(m.faces[i]) :
          Cardinality(e) = 2 /\ EdgeCount(m, e) = 2

(***************************************************************************)
(* The inputs: mesh files and wall thicknesses.                            *)
(***************************************************************************)
\* a closed box with corners (0,0,0) and (dx,dy,dz), 12 outward-facing triangles
Box(dx, dy, dz) ==
    Stl(<< <<P(0,0,0), P(0,dy,0), P(dx,dy,0)>>,   <<P(0,0,0), P(dx,dy,0), P(dx,0,0)>>,
           <<P(0,0,dz), P(dx,0,dz), P(dx,dy,dz)>>, <<P(0,0,dz), P(dx,dy,dz), P(0,dy,dz)>>,
           <<P(0,0,0), P(dx,0,0), P(dx,0,dz)>>,   <<P(0,0,0), P(dx,0,dz), P(0,0,dz)>>,
           <<P(0,dy,0), P(0,dy,dz), P(dx,dy,dz)>>, <<P(0,dy,0), P(dx,dy,dz), P(dx,dy,0)>>,
           <<P(0,0,0), P(0,0,dz), P(0,dy,dz)>>,   <<P(0,0,0), P(0,dy,dz), P(0,dy,0)>>,
           <<P(dx,0,0), P(dx,dy,0), P(dx,dy,dz)>>, <<P(dx,0,0), P(dx,dy,dz), P(dx,0,dz)>> >>)

\* two triangles meeting at a right angle: an open (non-watertight) surface
OpenCorner(d) ==
    Stl(<< <<P(0,0,0), P(d,0,0), P(0,d,0)>>, <<P(0,0,0), P(0,0,d), P(d,0,0)>> >>)

\* one triangle in the plane z = 0: a flat mesh, min_dim = 0
FlatTriangle == Stl(<< <<P(0,0,0), P(1,0,0), P(0,1,0)>> >>)

\* one triangle with three collinear points: min_dim = 0 and area 0
Sliver == Stl(<< <<P(0,0,0), P(1,0,0), P(2,0,0)>> >>)

MeshFiles ==
    {Box(d, d + 1, d) : d \in 1..MaxDim} \cup {OpenCorner(d) : d \in 1..MaxDim}
        \cup {FlatTriangle, Sliver}

FileContents == {Missing, Corrupt} \cup MeshFiles

WallThicknesses == {R(k, 20) : k \in -1..MaxThick} \cup {R(2, 1), R(1, 1000)}

Paths == {"Top.stl", "Out.stl", "Other.stl"}

\* the coordinates of a file are within the precision the model covers
CoordsFit(content) ==
    \A i \in 1..Len(content.tris) : \A j \in 1..3 : \A axis \in 1..3 :
        content.tris[i][j][axis][2] <= MaxDen
Procs == {1, 2}

(***************************************************************************)
(* The scale factor (lines 30-40).                                         *)
(***************************************************************************)
MinScale == Fin(R(7, 10))
MaxScale == Fin(R(19, 20))

\* a variant that subtracts the wall only once
RawScaleOneWall(min_dim, wt) == FDiv(RSub(min_dim, wt), min_dim)

\* scale_factor = (min_dim - 2 * wall_thickness) / min_dim
RawScale(min_dim, wt) == FDiv(RSub(min_dim, RMul(R(2, 1), wt)), min_dim)

\* scale_factor = max(0.7, min(scale_factor, 0.95))
ClampScale(s) == PyMax(MinScale, PyMin(s, MaxScale))

ScaleFactor(m, wt) == ClampScale(RawScale(MinDim(m), wt))

\* a variant that scales about the origin
ScaleAboutOrigin(vs, center, scale) == [i \in 1..Len(vs) |-> VScale(vs[i], scale)]

\* (inner_mesh.vertices - center) * scale_factor + center
ScaleVertices(vs, center, scale) ==
    [i \in 1..Len(vs) |-> VAdd(VScale(VSub(vs[i], center), scale), center)]

\* a variant, np.flipud: the order of the rows reversed
FlipUD(faces) == [i \in 1..Len(faces) |-> faces[Len(faces) + 1 - i]]

\* np.fliplr(inner_mesh.faces): every row reversed
FlipLR(faces) == [i \in 1..Len(faces) |-> <<faces[i][3], faces[i][2], faces[i][1]>>]

\* a variant that merges equal vertices of the two meshes
ConcatenateMerged(a, b) ==
    LET all == a.vertices \o b.vertices
        vs == Uniq(all)
        n == Len(a.vertices)
        Re(i) == IndexOf(vs, all[i + 1])
    IN  [vertices |-> vs,
         faces |-> [i \in 1..Len(a.faces) |->
                      <<Re(a.faces[i][1]), Re(a.faces[i][2]), Re(a.faces[i][3])>>]
                   \o [i \in 1..Len(b.faces) |->
                      <<Re(b.faces[i][1] + n), Re(b.faces[i][2] + n), Re(b.faces[i][3] + n)>>]]

\* trimesh.util.concatenate([a, b]): vertices appended, b's face indices offset by len(a.vertices)
Concatenate(a, b) ==
    LET n == Len(a.vertices)
    IN  [vertices |-> a.vertices \o b.vertices,
         faces |-> a.faces \o [i \in 1..Len(b.faces) |->
                                 <<b.faces[i][1] + n, b.faces[i][2] + n, b.faces[i][3] + n>>]]

\* (1 - scale_factor**3) * 100
Savings(scale) == RMul(RSub(R(1, 1), RMul(scale, RMul(scale, scale))), R(100, 1))

(***************************************************************************)
(* State.                                                                  *)
(***************************************************************************)
VARIABLES
    files,          \* the file system: path -> content
    pc,             \* each invocation's position in make_hollow
    input_file,     \* arguments of each invocation
    output_file,
    wall_thickness,
    mesh,           \* locals of each invocation
    scale_factor,
    inner_mesh,
    center,
    hollow_mesh,
    printed,        \* the diagnostics printed so far by each invocation
    error,          \* the exception that ended the invocation, "" if none
    runs,           \* how many times the caller has started the script
    max_runs,       \* how many times the caller starts the script at most
    started,        \* the file system as it was when each invocation's current run started
    original        \* the file system as it was before any run

vars == <<files, pc, input_file, output_file, wall_thickness, mesh, scale_factor,
          inner_mesh, center, hollow_mesh, printed, error, runs, max_runs, started, original>>

args == <<input_file, output_file, wall_thickness, max_runs, original>>

NoPrint == [vertices |-> -1, faces |-> -1, volume |-> Zero, watertight |-> FALSE,
            hollow_vertices |-> -1, hollow_faces |-> -1, savings |-> Zero]

ZeroPoint == <<Zero, Zero, Zero>>

\* the locals of an invocation that has not run yet
Fresh(p) ==
    /\ mesh' = [mesh EXCEPT ![p] = NoMesh]
    /\ scale_factor' = [scale_factor EXCEPT ![p] = NaN]
    /\ inner_mesh' = [inner_mesh EXCEPT ![p] = NoMesh]
    /\ center' = [center EXCEPT ![p] = ZeroPoint]
    /\ hollow_mesh' = [hollow_mesh EXCEPT ![p] = NoMesh]
    /\ printed' = [printed EXCEPT ![p] = NoPrint]

InitLocals ==
    /\ mesh = [p \in Procs |-> NoMesh]
    /\ scale_factor = [p \in Procs |-> NaN]
    /\ inner_mesh = [p \in Procs |-> NoMesh]
    /\ center = [p \in Procs |-> ZeroPoint]
    /\ hollow_mesh = [p \in Procs |-> NoMesh]
    /\ printed = [p \in Procs |-> NoPrint]
    /\ error = [p \in Procs |-> ""]
    /\ started = [p \in Procs |-> files]
    /\ original = files

\* one invocation of the script on Top.stl, in place or writing Out.stl, run up to MaxRuns times
Init ==
    /\ files \in [Paths -> FileContents]
    /\ files["Out.stl"] \in {Missing, FlatTriangle}
    /\ files["Other.stl"] = Missing
    /\ input_file = [p \in Procs |-> "Top.stl"]
    /\ output_file \in [Procs -> {"Top.stl", "Out.stl"}]
    /\ output_file[2] = "Top.stl"
    /\ wall_thickness \in [Procs -> WallThicknesses]
    /\ wall_thickness[2] = R(2, 1)
    /\ pc = [p \in Procs |-> IF p = 1 THEN "load" ELSE "idle"]
    /\ runs = [p \in Procs |-> IF p = 1 THEN 1 ELSE 0]
    /\ max_runs = [p \in Procs |-> IF p = 1 THEN MaxRuns ELSE 0]
    /\ InitLocals

\* two invocations side by side, on the same or on different files; the first is run twice
ParMeshFiles == {OpenCorner(1), FlatTriangle}

InitPar ==
    /\ files \in [Paths -> FileContents]
    /\ files["Top.stl"] \in {Missing, Sliver} \cup ParMeshFiles
    /\ files["Other.stl"] \in ParMeshFiles
    /\ files["Out.stl"] = Missing
    /\ input_file \in [Procs -> {"Top.stl", "Other.stl"}]
    /\ input_file[1] = "Top.stl"
    /\ output_file \in [Procs -> Paths]
    /\ output_file[1] \in {"Top.stl", "Out.stl"}
    /\ output_file[2] \in {"Other.stl", "Out.stl"}
    /\ wall_thickness \in [Procs -> {R(1, 10), R(2, 1)}]
    /\ wall_thickness[2] = R(2, 1)
    /\ pc = [p \in Procs |-> "load"]
    /\ runs = [p \in Procs |-> 1]
    /\ max_runs = [p \in Procs |-> IF p = 1 THEN 2 ELSE 1]
    /\ InitLocals

(***************************************************************************)
(* The steps of make_hollow.                                               *)
(***************************************************************************)
Goto(p, label) == pc' = [pc EXCEPT ![p] = label]

Raise(p, exc) ==
    /\ pc' = [pc EXCEPT ![p] = "error"]
    /\ error' = [error EXCEPT ![p] = exc]

\* a variant that opens the output file for writing before it loads the input
LoadOpensOutput(p) ==
    /\ pc[p] = "load"
    /\ files' = [files EXCEPT ![output_file[p]] = Corrupt]
    /\ IF files[input_file[p]].kind = "stl"
       THEN /\ mesh' = [mesh EXCEPT ![p] = LoadMesh(files[input_file[p]].tris)]
            /\ Goto(p, "diagnostics")
            /\ UNCHANGED error
       ELSE /\ Raise(p, "LoadError")
            /\ UNCHANGED mesh
    /\ UNCHANGED <<args, scale_factor, inner_mesh, center, hollow_mesh, printed,
                   runs, started>>

\* line 20: mesh = trimesh.load_mesh(input_file)
Load(p) ==
    /\ pc[p] = "load"
    /\ IF files[input_file[p]].kind = "stl"
       THEN /\ mesh' = [mesh EXCEPT ![p] = LoadMesh(files[input_file[p]].tris)]
            /\ Goto(p, "diagnostics")
            /\ UNCHANGED error
       ELSE /\ Raise(p, "LoadError")
            /\ UNCHANGED mesh
    /\ UNCHANGED <<files, args, scale_factor, inner_mesh, center, hollow_mesh, printed,
                   runs, started>>

\* a variant that refuses a mesh that is not watertight
DiagnosticsValidating(p) ==
    /\ pc[p] = "diagnostics"
    /\ printed' = [printed EXCEPT ![p].vertices = Len(mesh[p].vertices),
                                  ![p].faces = Len(mesh[p].faces),
                                  ![p].volume = Volume(mesh[p]),
                                  ![p].watertight = IsWatertight(mesh[p])]
    /\ IF IsWatertight(mesh[p])
       THEN Goto(p, "scale") /\ UNCHANGED error
       ELSE Raise(p, "GeometryError")
    /\ UNCHANGED <<files, args, mesh, scale_factor, inner_mesh, center, hollow_mesh,
                   runs, started>>

\* lines 22-26: the diagnostics of the original mesh are printed
Diagnostics(p) ==
    /\ pc[p] = "diagnostics"
    /\ printed' = [printed EXCEPT ![p].vertices = Len(mesh[p].vertices),
                                  ![p].faces = Len(mesh[p].faces),
                                  ![p].volume = Volume(mesh[p]),
                                  ![p].watertight = IsWatertight(mesh[p])]
    /\ Goto(p, "scale")
    /\ UNCHANGED <<files, args, mesh, scale_factor, inner_mesh, center, hollow_mesh,
                   error, runs, started>>

\* lines 30-40: the scale factor from the smallest bounding box dimension
ComputeScale(p) ==
    /\ pc[p] = "scale"
    /\ scale_factor' = [scale_factor EXCEPT ![p] = ScaleFactor(mesh[p], wall_thickness[p])]
    /\ Goto(p, "copy")
    /\ UNCHANGED <<files, args, mesh, inner_mesh, center, hollow_mesh, printed,
                   error, runs, started>>

\* line 46: inner_mesh = mesh.copy()
CopyMesh(p) ==
    /\ pc[p] = "copy"
    /\ inner_mesh' = [inner_mesh EXCEPT ![p] = mesh[p]]
    /\ Goto(p, "transform")
    /\ UNCHANGED <<files, args, mesh, scale_factor, center, hollow_mesh, printed,
                   error, runs, started>>

\* a variant in which inner_mesh shares its vertex array with mesh (a shallow copy)
TransformShared(p) ==
    /\ pc[p] = "transform"
    /\ IF AreaSum(mesh[p]) = Zero
       THEN /\ Raise(p, "ZeroDivisionError")
            /\ UNCHANGED <<center, inner_mesh, mesh>>
       ELSE /\ LET c == Centroid(mesh[p])
                   vs == ScaleVertices(inner_mesh[p].vertices, c, scale_factor[p].val)
               IN  /\ center' = [center EXCEPT ![p] = c]
                   /\ inner_mesh' = [inner_mesh EXCEPT ![p].vertices = vs]
                   /\ mesh' = [mesh EXCEPT ![p].vertices = vs]
            /\ Goto(p, "flip")
            /\ UNCHANGED error
    /\ UNCHANGED <<files, args, scale_factor, hollow_mesh, printed, runs, started>>

\* lines 49-50: the inner copy is scaled about the centroid of the original;
\* the centroid of a mesh of zero area raises ZeroDivisionError
Transform(p) ==
    /\ pc[p] = "transform"
    /\ IF AreaSum(mesh[p]) = Zero
       THEN /\ Raise(p, "ZeroDivisionError")
            /\ UNCHANGED <<center, inner_mesh>>
       ELSE /\ LET c == Centroid(mesh[p])
               IN  /\ center' = [center EXCEPT ![p] = c]
                   /\ inner_mesh' = [inner_mesh EXCEPT ![p].vertices =
                          ScaleVertices(inner_mesh[p].vertices, c, scale_factor[p].val)]
            /\ Goto(p, "flip")
            /\ UNCHANGED error
    /\ UNCHANGED <<files, args, mesh, scale_factor, hollow_mesh, printed, runs, started>>

\* line 53: inner_mesh.faces = np.fliplr(inner_mesh.faces)
Flip(p) ==
    /\ pc[p] = "flip"
    /\ inner_mesh' = [inner_mesh EXCEPT ![p].faces = FlipLR(inner_mesh[p].faces)]
    /\ Goto(p, "concatenate")
    /\ UNCHANGED <<files, args, mesh, scale_factor, center, hollow_mesh, printed,
                   error, runs, started>>

\* lines 57-62: hollow_mesh = concatenate([mesh, inner_mesh]), and its diagnostics
Combine(p) ==
    /\ pc[p] = "concatenate"
    /\ LET h == Concatenate(mesh[p], inner_mesh[p])
       IN  /\ hollow_mesh' = [hollow_mesh EXCEPT ![p] = h]
           /\ printed' = [printed EXCEPT ![p].hollow_vertices = Len(h.vertices),
                                         ![p].hollow_faces = Len(h.faces),
                                         ![p].savings = Savings(scale_factor[p].val)]
    /\ Goto(p, "export")
    /\ UNCHANGED <<files, args, mesh, scale_factor, inner_mesh, center, error, runs, started>>

\* line 66: hollow_mesh.export(output_file) opens the output file for writing, which empties it
ExportOpen(p) ==
    /\ pc[p] = "export"
    /\ files' = [files EXCEPT ![output_file[p]] = Corrupt]
    /\ Goto(p, "write")
    /\ UNCHANGED <<args, mesh, scale_factor, inner_mesh, center, hollow_mesh, printed,
                   error, runs, started>>

\* a variant that keeps a scratch copy of what it writes in a file of a fixed name
ExportWriteScratch(p) ==
    /\ pc[p] = "write"
    /\ files' = [files EXCEPT !["Out.stl"] = ExportStl(hollow_mesh[p]),
                              ![output_file[p]] = ExportStl(hollow_mesh[p])]
    /\ Goto(p, "done")
    /\ UNCHANGED <<args, mesh, scale_factor, inner_mesh, center, hollow_mesh, printed,
                   error, runs, started>>

\* line 66, continued: the triangles of the hollow mesh are written and the file is closed
ExportWrite(p) ==
    /\ pc[p] = "write"
    /\ files' = [files EXCEPT ![output_file[p]] = ExportStl(hollow_mesh[p])]
    /\ Goto(p, "done")
    /\ UNCHANGED <<args, mesh, scale_factor, inner_mesh, center, hollow_mesh, printed,
                   error, runs, started>>

\* lines 71-74: the caller runs the script again with the same arguments
Rerun(p) ==
    /\ pc[p] = "done"
    /\ runs[p] < max_runs[p]
    /\ CoordsFit(files[input_file[p]])
    /\ runs' = [runs EXCEPT ![p] = @ + 1]
    /\ started' = [started EXCEPT ![p] = files]
    /\ Goto(p, "load")
    /\ Fresh(p)
    /\ UNCHANGED <<files, args, error>>

\* a step of invocation p
Step(p) ==
    \/ Load(p) \/ Diagnostics(p) \/ ComputeScale(p) \/ CopyMesh(p) \/ Transform(p)
    \/ Flip(p) \/ Combine(p) \/ ExportOpen(p) \/ ExportWrite(p) \/ Rerun(p)

Next ==
    \E p \in Procs :
        \/ Load(p)
        \/ Diagnostics(p)
        \/ ComputeScale(p)
        \/ CopyMesh(p)
        \/ Transform(p)
        \/ Flip(p)
        \/ Combine(p)
        \/ ExportOpen(p)
        \/ ExportWrite(p)
        \/ Rerun(p)

Spec == Init /\ [][Next]_vars

\* make_hollow as a function: what one run, alone, writes for a given input file
SoloResult(content, wt) ==
    LET m == LoadMesh(content.tris)
        inner == [vertices |-> ScaleVertices(m.vertices, Centroid(m), ScaleFactor(m, wt).val),
                  faces |-> FlipLR(m.faces)]
    IN  ExportStl(Concatenate(m, inner))

\* the exception one run, alone, ends with for a given input file; "" if it succeeds
SoloError(content) ==
    IF content.kind # "stl" THEN "LoadError"
    ELSE IF AreaSum(LoadMesh(content.tris)) = Zero THEN "ZeroDivisionError"
    ELSE ""

SpecPar == InitPar /\ [][Next]_vars

(***************************************************************************)
(* Properties.                                                             *)
(***************************************************************************)
\* positions of an invocation at which the named local has been assigned
HasMesh == {"diagnostics", "scale", "copy", "transform", "flip", "concatenate", "export",
            "write", "done"}
HasScale == {"copy", "transform", "flip", "concatenate", "export", "write", "done"}
HasScaled == {"flip", "concatenate", "export", "write", "done"}
HasFlipped == {"concatenate", "export", "write", "done"}
HasHollow == {"export", "write", "done"}

Loaded(p) == mesh[p].vertices # <<>>

\* clamp(x, lo, hi) on rationals, as mathematics defines it
Clamp(x, lo, hi) == IF RLt(x, lo) THEN lo ELSE IF RLt(hi, x) THEN hi ELSE x

\* C1: for a mesh with min_dim > 0 the scale factor is clamp(s_raw, 0.7, 0.95) with
\* s_raw = (min_dim - 2 * wall_thickness) / min_dim: s_raw itself inside the interval,
\* 0.7 below it, 0.95 above it, so always within [0.7, 0.95]
C1_ScaleIsClampedRaw ==
    \A p \in Procs :
        (pc[p] \in HasScale /\ RLt(Zero, MinDim(mesh[p]))) =>
            LET d == MinDim(mesh[p])
                s_raw == RDiv(RSub(d, RMul(R(2, 1), wall_thickness[p])), d)
                s == scale_factor[p]
            IN  /\ s.kind = "fin"
                /\ s.val = Clamp(s_raw, R(7, 10), R(19, 20))
                /\ ~RLt(s.val, R(7, 10)) /\ ~RLt(R(19, 20), s.val)
                /\ (RLt(s_raw, R(7, 10)) => s.val = R(7, 10))
                /\ (RLt(R(19, 20), s_raw) => s.val = R(19, 20))
                /\ (~RLt(s_raw, R(7, 10)) /\ ~RLt(R(19, 20), s_raw) => s.val = s_raw)

\* side 1, thickness 0.1: the scale is exactly 0.8
C1_Witness ==
    \E p \in Procs :
        /\ pc[p] = "done"
        /\ MinDim(mesh[p]) = R(1, 1)
        /\ wall_thickness[p] = R(1, 10)
        /\ scale_factor[p] = Fin(R(4, 5))

\* C2: the hollow mesh has exactly twice the vertices and twice the faces of the input
\* mesh, and every one of its faces is written to the output file
C2_CountsDoubled ==
    \A p \in Procs :
        /\ pc[p] \in HasHollow =>
              /\ Len(hollow_mesh[p].vertices) = 2 * Len(mesh[p].vertices)
              /\ Len(hollow_mesh[p].faces) = 2 * Len(mesh[p].faces)
              /\ printed[p].hollow_vertices = 2 * printed[p].vertices
              /\ printed[p].hollow_faces = 2 * printed[p].faces
        /\ pc[p] = "done" =>
              Len(files[output_file[p]].tris) = 2 * Len(mesh[p].faces)

\* a second run in place, whose inner copy of the outer shell coincides with the first
\* run's inner shell: equal vertices are kept apart
C2_Witness ==
    \E p \in Procs :
        /\ pc[p] = "done"
        /\ runs[p] = 2
        /\ Cardinality(Range(hollow_mesh[p].vertices)) < Len(hollow_mesh[p].vertices)
        /\ Len(hollow_mesh[p].vertices) = 2 * Len(mesh[p].vertices)

\* C3: a degenerate mesh (min_dim = 0) is rejected: the invocation does not reach the
\* export step
C3_DegenerateRejected ==
    \A p \in Procs :
        (Loaded(p) /\ MinDim(mesh[p]) = Zero) => pc[p] \notin HasHollow


AsLoaded(p) == LoadMesh(started[p][input_file[p]].tris)

\* C5: the hollow mesh is the loaded mesh, unchanged, followed by the inner copy: its
\* first n vertices and m faces are the original's, its last n vertices the inner copy's,
\* its last m faces the inner copy's with every index increased by n; outer faces use
\* indices in [0, n), inner faces indices in [n, 2n)
C5_HollowIsOuterThenInner ==
    \A p \in Procs :
        pc[p] \in HasHollow =>
            LET M == AsLoaded(p)
                H == hollow_mesh[p]
                n == Len(M.vertices)
                m == Len(M.faces)
            IN  /\ mesh[p] = M
                /\ Len(H.vertices) = 2 * n /\ Len(H.faces) = 2 * m
                /\ SubSeq(H.vertices, 1, n) = M.vertices
                /\ SubSeq(H.faces, 1, m) = M.faces
                /\ SubSeq(H.vertices, n + 1, 2 * n) = inner_mesh[p].vertices
                /\ \A i \in 1..m : \A j \in 1..3 :
                      /\ H.faces[m + i][j] = inner_mesh[p].faces[i][j] + n
                      /\ H.faces[i][j] \in 0..(n - 1)
                      /\ H.faces[m + i][j] \in n..(2 * n - 1)

\* a hollow box: 8 + 8 vertices, 12 + 12 faces, the inner shell away from the outer
C5_Witness ==
    \E p \in Procs :
        /\ pc[p] = "done"
        /\ Len(mesh[p].vertices) = 8
        /\ Len(hollow_mesh[p].faces) = 24
        /\ inner_mesh[p].vertices # mesh[p].vertices

\* C6: the i-th face of the inner shell is the i-th face (a, b, c) of the original
\* reversed, (c, b, a); no face is added, removed or moved, and the flip leaves the
\* scaled vertex positions as they were
C6_InnerFacesReversed ==
    \A p \in Procs :
        pc[p] \in HasFlipped =>
            /\ Len(inner_mesh[p].faces) = Len(mesh[p].faces)
            /\ \A i \in 1..Len(mesh[p].faces) :
                  LET f == mesh[p].faces[i]
                      g == inner_mesh[p].faces[i]
                  IN  g[1] = f[3] /\ g[2] = f[2] /\ g[3] = f[1]
            /\ inner_mesh[p].vertices =
                  ScaleVertices(mesh[p].vertices, center[p], scale_factor[p].val)

\* a flipped mesh of several faces
C6_Witness ==
    \E p \in Procs :
        /\ pc[p] = "concatenate"
        /\ Len(mesh[p].faces) >= 2
        /\ inner_mesh[p].faces # mesh[p].faces

C8_ScalingRoundTrip ==
    \A p \in Procs :
        pc[p] \in HasScaled =>
            LET c == center[p]
                s == scale_factor[p].val
                Back(v) == <<RAdd(RDiv(RSub(v[1], c[1]), s), c[1]),
                             RAdd(RDiv(RSub(v[2], c[2]), s), c[2]),
                             RAdd(RDiv(RSub(v[3], c[3]), s), c[3])>>
            IN  /\ c = Centroid(mesh[p])
                /\ Len(inner_mesh[p].vertices) = Len(mesh[p].vertices)
                /\ \A i \in 1..Len(mesh[p].vertices) :
                      Back(inner_mesh[p].vertices[i]) = mesh[p].vertices[i]
                /\ ScaleVertices(<<c>>, c, s) = <<c>>

\* a mesh whose centroid is not the origin has been scaled
C8_Witness ==
    \E p \in Procs :
        /\ pc[p] = "flip"
        /\ center[p] # ZeroPoint
        /\ inner_mesh[p].vertices # mesh[p].vertices

\* the two invocations work on file sets that have no path in common
Independent ==
    {input_file[1], output_file[1]} \cap {input_file[2], output_file[2]} = {}

BeforeExport == {"load", "diagnostics", "scale", "copy", "transform", "flip", "concatenate",
                 "export", "error"}

\* C9: invocations on independent file sets do not interfere: whatever the interleaving,
\* each one's files are touched by no other invocation, it fails exactly when it would
\* fail alone, and it writes to its output file what it would write alone
C9_IndependentRunsDoNotInterfere ==
    Independent =>
        \A p \in Procs :
            LET in == started[p][input_file[p]]
            IN  /\ pc[p] \in BeforeExport =>
                      /\ files[input_file[p]] = in
                      /\ files[output_file[p]] = started[p][output_file[p]]
                /\ pc[p] = "error" => error[p] = SoloError(in)
                /\ pc[p] \in {"write", "done"} => SoloError(in) = ""
                /\ pc[p] = "done" =>
                      /\ files[output_file[p]] = SoloResult(in, wall_thickness[p])
                      /\ input_file[p] # output_file[p] => files[input_file[p]] = in

\* both invocations have exported, the second one last, to different files
C9_Witness ==
    /\ Independent
    /\ pc[1] = "done" /\ runs[1] = 2
    /\ pc[2] = "done"
    /\ output_file[1] = "Out.stl"
    /\ files["Out.stl"] # files["Other.stl"]
    /\ files["Other.stl"] # original["Other.stl"]

RECURSIVE Pow2(_)
Pow2(k) == IF k = 0 THEN 1 ELSE 2 * Pow2(k - 1)

\* C10: run in place, the script is not idempotent: each successful run loads the whole
\* file before it overwrites it with a mesh of twice as many faces, so after k runs the
\* file holds 2^k times the original faces and never the original again
C10_InPlaceRunsDouble ==
    \A p \in Procs :
        (input_file[p] = output_file[p] /\ pc[p] = "done") =>
            LET f == input_file[p]
            IN  /\ mesh[p] = AsLoaded(p)
                /\ files[f] = ExportStl(hollow_mesh[p])
                /\ Len(files[f].tris) = 2 * Len(started[p][f].tris)
                /\ Len(files[f].tris) = Pow2(runs[p]) * Len(original[f].tris)
                /\ Len(original[f].tris) > 0
                /\ files[f] # original[f]

\* three runs in place: eight times the faces
C10_Witness ==
    \E p \in Procs :
        /\ input_file[p] = output_file[p]
        /\ pc[p] = "done"
        /\ runs[p] = 3
        /\ Len(files[input_file[p]].tris) = 8 * Len(original[input_file[p]].tris)

====
